---- MODULE Spec2Model ----
(***************************************************************************)
(* SweetTreat: the swipe feed (swipeService.ts), the swipe screen          *)
(* (app/(tabs)/swipe.tsx), the reels screen (app/(tabs)/reels.tsx), the    *)
(* video services (profileService.ts) and sign-in (UserContext.tsx).       *)
(*                                                                         *)
(* Eight specifications share the module:                                  *)
(*   SpecFeed    - getUnswipedRestaurants applied to bounded inputs        *)
(*   SpecGeo     - getUnswipedRestaurants with and without a location      *)
(*   SpecService - sequences of swipeService calls against the store       *)
(*   Spec        - the swipe screen: loads, gestures, buttons, races       *)
(*   SpecReels   - the reels screen: gestures, callbacks, view tracking     *)
(*   SpecViews   - videoService.incrementViews calls in flight              *)
(*   SpecAuth    - session, profile and the route the app shows            *)
(*   SpecLikes   - likesService.toggleLike calls                           *)
(***************************************************************************)
EXTENDS Integers, Sequences, FiniteSets, Bags, TLC

VARIABLES
  restaurantsTable,   \* rows of public.restaurants
  swipe_history,      \* bag of rows of swipe_history
  saved_restaurants,  \* bag of rows of saved_restaurants
  lastCall,           \* the last completed swipeService call (service level)
  user,               \* useUser().user?.id, or NoUser
  userLoading,        \* useUser().loading
  restaurants,        \* swipe screen: useState restaurants
  currentIndex,       \* swipe screen: useState currentIndex
  loading,            \* swipe screen: useState loading
  error,              \* swipe screen: useState error
  swiping,            \* swipe screen: useState swiping
  alert,              \* the Alert.alert dialog on display
  tasks,              \* bag of handleSwipe invocations: pending callbacks and awaits
  loads,              \* bag of loadRestaurants invocations in flight
  videos,             \* reels screen: useState videos
  reelsIndex,         \* reels screen: useState currentIndex
  reelsLoading,       \* reels screen: useState loading
  reelsError,         \* reels screen: useState error
  reelsCallbacks,     \* reels screen: bag of pending withTiming callbacks
  viewedVideos,       \* reels screen: useRef viewedVideos
  viewRequests,       \* reels screen: incrementViews calls made since the last successful load
  views_count,        \* video_reviews.views_count of each video
  viewCalls,          \* bag of incrementViews calls in flight
  viewsCompleted,     \* per video, the incrementViews calls that have returned
  session,            \* UserContext: useState session (its user id), or NoUser
  profile,            \* UserContext: useState profile (its id), or NoUser
  isNewUser,          \* UserContext: useState isNewUser
  route,              \* the route expo-router shows
  profiles,           \* ids of the rows of public.profiles
  authUsers,          \* ids of the rows of auth.users
  authCalls,          \* bag of UserContext / screen calls awaiting an answer
  user_likes          \* set of <<user_id, video_id>> rows of public.user_likes

dbVars == <<restaurantsTable, swipe_history, saved_restaurants>>
swipeVars == <<user, userLoading, restaurants, currentIndex, loading, error,
               swiping, alert, tasks, loads>>
reelsVars == <<videos, reelsIndex, reelsLoading, reelsError, reelsCallbacks,
               viewedVideos, viewRequests>>
videoVars == <<views_count, viewCalls, viewsCompleted>>
authVars == <<session, profile, isNewUser, route, profiles, authUsers, authCalls>>
likeVars == <<user_likes>>
vars == <<restaurantsTable, swipe_history, saved_restaurants, lastCall,
          user, userLoading, restaurants, currentIndex, loading, error,
          swiping, alert, tasks, loads,
          videos, reelsIndex, reelsLoading, reelsError, reelsCallbacks,
          viewedVideos, viewRequests,
          views_count, viewCalls, viewsCompleted,
          session, profile, isNewUser, route, profiles, authUsers, authCalls,
          user_likes>>

----------------------------------------------------------------------------
(* Bounds *)

NumRestaurants == 4
NumUsers == 2
MaxLimit == 2

Users == 1..NumUsers
RestaurantIds == 1..NumRestaurants
Ratings == {1, 3, 5}
NoUser == 0

Min(a, b) == IF a < b THEN a ELSE b

----------------------------------------------------------------------------
(* The store *)

NoError == "none"
ErrUnique == "23505"
ErrOther == "XX000"

\* latDelta, lonDelta: 0.45 degrees, in hundredths of a degree
LatDelta == 45
LonDelta == 45

\* where restaurant i is, in hundredths of a degree: A at the origin, B on a
\* corner of the origin's box, C just north of it, D just west of it
Latitude(i) == IF i = 2 THEN LatDelta ELSE IF i = 3 THEN LatDelta + 1 ELSE 0
Longitude(i) == IF i = 2 THEN -LonDelta ELSE IF i = 4 THEN -(LonDelta + 1) ELSE 0

\* A restaurants row; created_at follows insertion order, one row per instant.
RestaurantRow(i, rating) ==
  [id |-> i, rating |-> rating, created_at |-> i,
   latitude |-> Latitude(i), longitude |-> Longitude(i)]

\* .order('rating', desc).order('created_at', desc)
RankBefore(a, b) ==
  \/ a.rating > b.rating
  \/ a.rating = b.rating /\ a.created_at > b.created_at

RECURSIVE OrderRows(_)
OrderRows(S) ==
  IF S = {} THEN <<>>
  ELSE LET top == CHOOSE x \in S : \A y \in S \ {x} : RankBefore(x, y)
       IN <<top>> \o OrderRows(S \ {top})

\* query.order(...).limit(n)
QueryRestaurants(table, n) ==
  LET ordered == OrderRows(table)
  IN SubSeq(ordered, 1, Min(n, Len(ordered)))

HistoryRow(u, r, a) == [user_id |-> u, restaurant_id |-> r, action |-> a]
SavedRow(u, r) == [user_id |-> u, restaurant_id |-> r]

\* number of swipe_history rows of one (user, restaurant) pair
HistoryCount(hist, u, r) ==
  CopiesIn(HistoryRow(u, r, "left"), hist) + CopiesIn(HistoryRow(u, r, "right"), hist)

\* insert into swipe_history under its (user_id, restaurant_id) uniqueness
InsertHistory(hist, row, fail) ==
  IF fail THEN [table |-> hist, error |-> ErrOther]
  ELSE IF HistoryCount(hist, row.user_id, row.restaurant_id) > 0
       THEN [table |-> hist, error |-> ErrUnique]
       ELSE [table |-> hist (+) SetToBag({row}), error |-> NoError]

\* insert into saved_restaurants under its (user_id, restaurant_id) uniqueness
InsertSaved(saved, row, fail) ==
  IF fail THEN [table |-> saved, error |-> ErrOther]
  ELSE IF CopiesIn(row, saved) > 0
       THEN [table |-> saved, error |-> ErrUnique]
       ELSE [table |-> saved (+) SetToBag({row}), error |-> NoError]

\* delete from saved_restaurants where user_id = u and restaurant_id = r
DeleteSaved(saved, u, r, fail) ==
  IF fail THEN [table |-> saved, error |-> ErrOther]
  ELSE IF CopiesIn(SavedRow(u, r), saved) = 0
       THEN [table |-> saved, error |-> NoError]
       ELSE [table |-> saved (-) [x \in {SavedRow(u, r)} |-> CopiesIn(x, saved)],
             error |-> NoError]

\* the swipe_history rows of one (user, restaurant) pair
PairHistory(hist, u, r) ==
  [x \in {y \in BagToSet(hist) : y.user_id = u /\ y.restaurant_id = r} |-> CopiesIn(x, hist)]

----------------------------------------------------------------------------
(* swipeService *)

\* `error && error.code !== '23505'`: the error is thrown to the caller
IsThrownMutDup(err) == err # NoError
IsThrownMutNone(err) == FALSE
IsThrown(err) == err # NoError /\ err # ErrUnique

\* first await of saveRestaurant: the saved_restaurants insert
SaveInsertSaved(saved, u, r, fail) == InsertSaved(saved, SavedRow(u, r), fail)

\* second await of saveRestaurant: the swipe_history insert, action 'right'
SaveInsertHistory(hist, u, r, fail) == InsertHistory(hist, HistoryRow(u, r, "right"), fail)

\* the await of skipRestaurant: the swipe_history insert, action 'left'
SkipInsertHistory(hist, u, r, fail) == InsertHistory(hist, HistoryRow(u, r, "left"), fail)

\* saveRestaurant as one call
saveRestaurant(saved, hist, u, r, fail1, fail2) ==
  LET s1 == SaveInsertSaved(saved, u, r, fail1)
      s2 == SaveInsertHistory(hist, u, r, fail2)
  IN IF IsThrown(s1.error)
     THEN [saved |-> s1.table, hist |-> hist, errors |-> <<s1.error>>, outcome |-> "threw"]
     ELSE [saved |-> s1.table, hist |-> s2.table, errors |-> <<s1.error, s2.error>>,
           outcome |-> IF IsThrown(s2.error) THEN "threw" ELSE "returned"]

\* skipRestaurant as one call; it makes no request on saved_restaurants
skipRestaurantMut(saved, hist, u, r, fail) ==
  LET s == SkipInsertHistory(hist, u, r, fail)
  IN [saved |-> DeleteSaved(saved, u, r, FALSE).table, hist |-> s.table,
      errors |-> <<s.error>>,
      outcome |-> IF IsThrown(s.error) THEN "threw" ELSE "returned"]
skipRestaurant(saved, hist, u, r, fail) ==
  LET s == SkipInsertHistory(hist, u, r, fail)
  IN [saved |-> saved, hist |-> s.table, errors |-> <<s.error>>,
      outcome |-> IF IsThrown(s.error) THEN "threw" ELSE "returned"]

\* removeSavedRestaurant as one call: `if (error) throw error`
removeSavedRestaurantMut(saved, hist, u, r, fail) ==
  LET s == DeleteSaved(saved, u, r, fail)
  IN [saved |-> s.table, hist |-> hist (-) PairHistory(hist, u, r),
      errors |-> <<s.error>>,
      outcome |-> IF s.error # NoError THEN "threw" ELSE "returned"]
removeSavedRestaurant(saved, hist, u, r, fail) ==
  LET s == DeleteSaved(saved, u, r, fail)
  IN [saved |-> s.table, hist |-> hist, errors |-> <<s.error>>,
      outcome |-> IF s.error # NoError THEN "threw" ELSE "returned"]

\* select('restaurant_id').eq('user_id', userId), as a Set
SwipedRestaurantIds(hist, u) ==
  {row.restaurant_id : row \in {x \in BagToSet(hist) : x.user_id = u}}

\* data.filter(restaurant => !swipedRestaurantIds.has(restaurant.id))
FilterUnswipedMut(data, swipedIds) == data
FilterUnswiped(data, swipedIds) ==
  SelectSeq(data, LAMBDA row : row.id \notin swipedIds)

\* options without latitude and longitude
NoLocation == [x \in {} |-> 0]

\* `latitude !== undefined && longitude !== undefined`: the four gte/lte filters
BoundingBoxMut(table, location) ==
  IF "latitude" \in DOMAIN location /\ "longitude" \in DOMAIN location
  THEN {x \in table : /\ x.latitude > location.latitude - LatDelta
                      /\ x.latitude < location.latitude + LatDelta
                      /\ x.longitude > location.longitude - LonDelta
                      /\ x.longitude < location.longitude + LonDelta}
  ELSE table
BoundingBox(table, location) ==
  IF "latitude" \in DOMAIN location /\ "longitude" \in DOMAIN location
  THEN {x \in table : /\ x.latitude >= location.latitude - LatDelta
                      /\ x.latitude <= location.latitude + LatDelta
                      /\ x.longitude >= location.longitude - LonDelta
                      /\ x.longitude <= location.longitude + LonDelta}
  ELSE table

\* query.limit(limit * 3)
OverFetchMut(limit) == limit * 2
OverFetch(limit) == limit * 3

\* unswiped.slice(0, limit)
SliceLimit(unswiped, limit) == SubSeq(unswiped, 1, Min(limit, Len(unswiped)))

\* getUnswipedRestaurants once both reads have answered
UnswipedResult(table, swipedIds, limit, location) ==
  SliceLimit(FilterUnswiped(QueryRestaurants(BoundingBox(table, location), OverFetch(limit)),
                            swipedIds),
             limit)

\* getUnswipedRestaurants as one call
getUnswipedRestaurants(hist, table, u, limit, location, failSwiped, failQuery) ==
  IF failSwiped \/ failQuery
  THEN [outcome |-> "threw", result |-> <<>>]
  ELSE [outcome |-> "returned",
        result |-> UnswipedResult(table, SwipedRestaurantIds(hist, u), limit, location)]

----------------------------------------------------------------------------
(* Values of the parts a specification leaves alone *)

NoCall == [op |-> "none", user |-> NoUser, restaurant |-> 0, limit |-> 0,
           location |-> NoLocation,
           errors |-> <<>>, outcome |-> "none", result |-> <<>>]

\* the source of the spec's scenario: A(5), B(3), C(3), D(1) in insertion order
ScenarioRating(i) == IF i = 1 THEN 5 ELSE IF i \in {2, 3} THEN 3 ELSE 1
ScenarioTable == {RestaurantRow(i, ScenarioRating(i)) : i \in RestaurantIds}

MaxTasks == 2
MaxLoads == 2
ScreenLimit == 2
ScreenRestaurants == 2
MaxVideos == 3
MaxCallbacks == 2

SwipeScreenInitial ==
  /\ user = NoUser /\ userLoading = TRUE
  /\ restaurants = <<>> /\ currentIndex = 0
  /\ loading = TRUE /\ error = FALSE /\ swiping = FALSE /\ alert = FALSE
  /\ tasks = EmptyBag
  /\ loads = EmptyBag

VideoIds == 1..MaxVideos

ReelsScreenInitial ==
  /\ videos = <<>> /\ reelsIndex = 0
  /\ reelsLoading = TRUE /\ reelsError = FALSE
  /\ reelsCallbacks = EmptyBag
  /\ viewedVideos = {}
  /\ viewRequests = [v \in VideoIds |-> 0]

RouteIndex == "/"
RouteLogin == "/auth/login"
RouteCreateProfile == "/auth/create-profile"
RouteHome == "/(tabs)/home"

AuthInitial ==
  /\ session = NoUser /\ profile = NoUser /\ isNewUser = FALSE
  /\ route = RouteIndex
  /\ profiles = Users /\ authUsers = Users
  /\ authCalls = EmptyBag

LikesInitial == user_likes = {}


VideoStoreInitial ==
  /\ views_count = [v \in VideoIds |-> 0]
  /\ viewCalls = EmptyBag
  /\ viewsCompleted = [v \in VideoIds |-> 0]

----------------------------------------------------------------------------
(* SpecFeed: getUnswipedRestaurants on every small source and decided-set *)

\* the account that is signed in on this device
SessionUser == 1

\* a decided-set per user, as swipe_history rows
DecidedBag(d) ==
  SetToBag({HistoryRow(p[1], p[2], "left") :
              p \in {q \in Users \X RestaurantIds : q[2] \in d[q[1]]}})

InitFeed ==
  /\ \E f \in [RestaurantIds -> Ratings] :
       restaurantsTable = {RestaurantRow(i, f[i]) : i \in RestaurantIds}
  /\ \E mine \in SUBSET RestaurantIds, others \in {{}, RestaurantIds} :
       swipe_history = DecidedBag([u \in Users |-> IF u = SessionUser THEN mine ELSE others])
  /\ saved_restaurants = EmptyBag
  /\ lastCall = NoCall
  /\ SwipeScreenInitial
  /\ ReelsScreenInitial
  /\ VideoStoreInitial
  /\ AuthInitial
  /\ LikesInitial

FeedLoad(u, limit) ==
  LET res == getUnswipedRestaurants(swipe_history, restaurantsTable, u, limit, NoLocation,
                                    FALSE, FALSE)
  IN /\ lastCall' = [op |-> "getUnswipedRestaurants", user |-> u, restaurant |-> 0,
                     limit |-> limit, location |-> NoLocation, errors |-> <<>>,
                     outcome |-> res.outcome, result |-> res.result]
     /\ UNCHANGED <<dbVars, swipeVars, reelsVars, videoVars, authVars, likeVars>>

NextFeed == \E u \in Users, limit \in 1..MaxLimit : FeedLoad(u, limit)

SpecFeed == InitFeed /\ [][NextFeed]_vars

----------------------------------------------------------------------------
(* SpecGeo: getUnswipedRestaurants with and without a location *)

\* the caller's latitude and longitude, in hundredths of a degree
CallerCoordinates == {-1, 0, 1}

\* options with both coordinates, with one of them, with neither
Locations ==
  [latitude : CallerCoordinates, longitude : CallerCoordinates]
    \cup [latitude : CallerCoordinates]
    \cup [longitude : CallerCoordinates]
    \cup {NoLocation}

InitGeo ==
  /\ restaurantsTable = ScenarioTable
  /\ \E mine \in SUBSET RestaurantIds :
       swipe_history = DecidedBag([u \in Users |-> IF u = SessionUser THEN mine ELSE {}])
  /\ saved_restaurants = EmptyBag
  /\ lastCall = NoCall
  /\ SwipeScreenInitial
  /\ ReelsScreenInitial
  /\ VideoStoreInitial
  /\ AuthInitial
  /\ LikesInitial

GeoLoad(u, limit, location) ==
  LET res == getUnswipedRestaurants(swipe_history, restaurantsTable, u, limit, location,
                                    FALSE, FALSE)
  IN /\ lastCall' = [op |-> "getUnswipedRestaurants", user |-> u, restaurant |-> 0,
                     limit |-> limit, location |-> location, errors |-> <<>>,
                     outcome |-> res.outcome, result |-> res.result]
     /\ UNCHANGED <<dbVars, swipeVars, reelsVars, videoVars, authVars, likeVars>>

NextGeo ==
  \E limit \in 1..MaxLimit, location \in Locations : GeoLoad(SessionUser, limit, location)

SpecGeo == InitGeo /\ [][NextGeo]_vars

----------------------------------------------------------------------------
(* SpecService: sequences of swipeService calls by one user *)

\* the restaurants the service calls are made on
ServiceRestaurants == 3

InitService ==
  /\ restaurantsTable = {x \in ScenarioTable : x.id <= ServiceRestaurants}
  /\ swipe_history = EmptyBag
  /\ saved_restaurants = EmptyBag
  /\ lastCall = NoCall
  /\ SwipeScreenInitial
  /\ ReelsScreenInitial
  /\ VideoStoreInitial
  /\ AuthInitial
  /\ LikesInitial

CallSave(u, r, fail1, fail2) ==
  LET res == saveRestaurant(saved_restaurants, swipe_history, u, r, fail1, fail2)
  IN /\ saved_restaurants' = res.saved
     /\ swipe_history' = res.hist
     /\ lastCall' = [op |-> "saveRestaurant", user |-> u, restaurant |-> r, limit |-> 0,
                     location |-> NoLocation,
                     errors |-> res.errors, outcome |-> res.outcome, result |-> <<>>]
     /\ UNCHANGED <<restaurantsTable, swipeVars, reelsVars, videoVars, authVars, likeVars>>

CallSkip(u, r, fail) ==
  LET res == skipRestaurant(saved_restaurants, swipe_history, u, r, fail)
  IN /\ saved_restaurants' = res.saved
     /\ swipe_history' = res.hist
     /\ lastCall' = [op |-> "skipRestaurant", user |-> u, restaurant |-> r, limit |-> 0,
                     location |-> NoLocation,
                     errors |-> res.errors, outcome |-> res.outcome, result |-> <<>>]
     /\ UNCHANGED <<restaurantsTable, swipeVars, reelsVars, videoVars, authVars, likeVars>>

CallRemoveSaved(u, r, fail) ==
  LET res == removeSavedRestaurant(saved_restaurants, swipe_history, u, r, fail)
  IN /\ saved_restaurants' = res.saved
     /\ swipe_history' = res.hist
     /\ lastCall' = [op |-> "removeSavedRestaurant", user |-> u, restaurant |-> r,
                     limit |-> 0, location |-> NoLocation, errors |-> res.errors,
                     outcome |-> res.outcome, result |-> <<>>]
     /\ UNCHANGED <<restaurantsTable, swipeVars, reelsVars, videoVars, authVars, likeVars>>

CallGetUnswiped(u, limit, failSwiped, failQuery) ==
  LET res == getUnswipedRestaurants(swipe_history, restaurantsTable, u, limit, NoLocation,
                                    failSwiped, failQuery)
  IN /\ lastCall' = [op |-> "getUnswipedRestaurants", user |-> u, restaurant |-> 0,
                     limit |-> limit, location |-> NoLocation, errors |-> <<>>,
                     outcome |-> res.outcome, result |-> res.result]
     /\ UNCHANGED <<dbVars, swipeVars, reelsVars, videoVars, authVars, likeVars>>

NextService ==
  \/ \E r \in 1..ServiceRestaurants, f1, f2 \in BOOLEAN : CallSave(SessionUser, r, f1, f2)
  \/ \E r \in 1..ServiceRestaurants, f \in BOOLEAN : CallSkip(SessionUser, r, f)
  \/ \E r \in 1..ServiceRestaurants, f \in BOOLEAN : CallRemoveSaved(SessionUser, r, f)
  \/ \E limit \in 1..MaxLimit, fs, fq \in BOOLEAN :
       CallGetUnswiped(SessionUser, limit, fs, fq)

SpecService == InitService /\ [][NextService]_vars

----------------------------------------------------------------------------
(* Claims on swipeService *)

IsGetCall(c) == c.op = "getUnswipedRestaurants" /\ c.outcome = "returned"
ResultIds(c) == {c.result[i].id : i \in 1..Len(c.result)}
DecidedSet(u) == {r \in RestaurantIds : HistoryCount(swipe_history, u, r) > 0}
HasFatal(errs) == \E i \in 1..Len(errs) : errs[i] \notin {NoError, ErrUnique}

\* C1: whatever swipes have been recorded, a feed load returns no restaurant
\* that has a swipe_history row of the loading user.
C1_NoRepeats ==
  IsGetCall(lastCall) => ResultIds(lastCall) \cap DecidedSet(lastCall.user) = {}

\* a load that returned cards although a decided restaurant was among the rows fetched
C1_Witness ==
  /\ IsGetCall(lastCall)
  /\ lastCall.result # <<>>
  /\ \E x \in restaurantsTable :
       /\ x.id \in DecidedSet(lastCall.user)
       /\ \E i \in 1..Len(lastCall.result) : x.rating > lastCall.result[i].rating

\* C2: the same decision recorded twice in a row for one pair, the store
\* answering both times, succeeds both times and leaves exactly one
\* swipe_history row for the pair.
C2_IdempotentDecision ==
  [][ ( /\ lastCall.op \in {"saveRestaurant", "skipRestaurant"}
        /\ lastCall'.op = lastCall.op
        /\ lastCall'.user = lastCall.user
        /\ lastCall'.restaurant = lastCall.restaurant
        /\ ~HasFatal(lastCall.errors)
        /\ ~HasFatal(lastCall'.errors) )
      => ( /\ lastCall.outcome = "returned"
           /\ lastCall'.outcome = "returned"
           /\ HistoryCount(swipe_history', lastCall'.user, lastCall'.restaurant) = 1 )
    ]_vars

\* a skip that met its own earlier row
C2_Witness ==
  /\ lastCall.op = "skipRestaurant"
  /\ lastCall.errors = <<ErrUnique>>
  /\ lastCall.outcome = "returned"
  /\ CopiesIn(HistoryRow(lastCall.user, lastCall.restaurant, "left"), swipe_history) = 1

\* C3: saveRestaurant and skipRestaurant return on no error and on 23505,
\* and throw on every other store error.
C3_DuplicateIsSuccess ==
  lastCall.op \in {"saveRestaurant", "skipRestaurant"} =>
    /\ lastCall.outcome \in {"returned", "threw"}
    /\ lastCall.outcome = "threw" <=> HasFatal(lastCall.errors)

\* a save that met 23505 on saved_restaurants and went on to insert the history row
C3_Witness ==
  /\ lastCall.op = "saveRestaurant"
  /\ lastCall.errors = <<ErrUnique, NoError>>
  /\ lastCall.outcome = "returned"

\* C17: no swipeService call removes a swipe_history row or changes its
\* action: every (user, restaurant, action) row present before a call is
\* present after it.
C17_AppendOnly ==
  [][ \A u \in Users, r \in RestaurantIds, a \in {"left", "right"} :
        CopiesIn(HistoryRow(u, r, a), swipe_history')
          >= CopiesIn(HistoryRow(u, r, a), swipe_history)
    ]_vars

\* a saved restaurant was removed from saved_restaurants; its decision row stays
C17_Witness ==
  /\ lastCall.op = "removeSavedRestaurant"
  /\ lastCall.outcome = "returned"
  /\ CopiesIn(SavedRow(lastCall.user, lastCall.restaurant), saved_restaurants) = 0
  /\ CopiesIn(HistoryRow(lastCall.user, lastCall.restaurant, "right"), swipe_history) = 1

\* C19: after a saveRestaurant that returned, saved_restaurants holds a row
\* of the pair and swipe_history holds a row of the pair.
C19_SaveLeavesBoth ==
  (lastCall.op = "saveRestaurant" /\ lastCall.outcome = "returned") =>
    /\ CopiesIn(SavedRow(lastCall.user, lastCall.restaurant), saved_restaurants) >= 1
    /\ HistoryCount(swipe_history, lastCall.user, lastCall.restaurant) >= 1

\* a first save of a restaurant: both inserts went through
C19_Witness ==
  /\ lastCall.op = "saveRestaurant"
  /\ lastCall.errors = <<NoError, NoError>>
  /\ lastCall.outcome = "returned"
  /\ CopiesIn(SavedRow(lastCall.user, lastCall.restaurant), saved_restaurants) = 1
  /\ CopiesIn(HistoryRow(lastCall.user, lastCall.restaurant, "right"), swipe_history) = 1

\* C20: a skipRestaurant call, whether it inserts, meets a duplicate or
\* throws, leaves saved_restaurants as it was and adds at most the 'left'
\* row of its pair to swipe_history.
C20_SkipLeavesSaved ==
  [][ lastCall'.op = "skipRestaurant" =>
        /\ saved_restaurants' = saved_restaurants
        /\ \/ swipe_history' = swipe_history
           \/ swipe_history' = swipe_history (+)
                 SetToBag({HistoryRow(lastCall'.user, lastCall'.restaurant, "left")})
    ]_vars

\* a skip of a saved restaurant threw; the saved row is still there
C20_Witness ==
  /\ lastCall.op = "skipRestaurant"
  /\ lastCall.outcome = "threw"
  /\ CopiesIn(SavedRow(lastCall.user, lastCall.restaurant), saved_restaurants) = 1

----------------------------------------------------------------------------
(* Claims on the feed filter *)

\* rating descending, then creation time descending
Outranks(a, b) ==
  IF a.rating # b.rating THEN a.rating > b.rating ELSE a.created_at > b.created_at

RankPosition(table, x) == 1 + Cardinality({y \in table : Outranks(y, x)})

Undecided(table, u) == {x \in table : x.id \notin DecidedSet(u)}

\* C8 (as stated): a load returns `limit` undecided restaurants whenever the
\* source holds that many, and fewer only when the source holds fewer.
C8_OverFetchConvergence ==
  IsGetCall(lastCall) =>
    Len(lastCall.result) =
      Min(lastCall.limit, Cardinality(Undecided(restaurantsTable, lastCall.user)))

HasLocation(location) ==
  "latitude" \in DOMAIN location /\ "longitude" \in DOMAIN location

\* x lies in [lat - 0.45, lat + 0.45] x [lon - 0.45, lon + 0.45]
InRectangle(x, location) ==
  /\ location.latitude - LatDelta <= x.latitude
  /\ x.latitude <= location.latitude + LatDelta
  /\ location.longitude - LonDelta <= x.longitude
  /\ x.longitude <= location.longitude + LonDelta

\* res is the feed of `source`: the first `limit` undecided rows of its
\* 3*limit highest-ranked rows
IsFeedOf(res, source, u, limit) ==
  LET cand == {x \in source : /\ RankPosition(source, x) <= 3 * limit
                              /\ x.id \notin DecidedSet(u)}
      got == {res[i] : i \in 1..Len(res)}
  IN /\ got \subseteq cand
     /\ Len(res) = Min(limit, Cardinality(cand))
     /\ \A c \in cand \ got : \A x \in got : Outranks(x, c)

\* C18: with both coordinates supplied every returned restaurant lies in the
\* closed rectangle around them, and the result is the feed of the
\* restaurants in that rectangle; otherwise the result is the feed of all
\* restaurants, wherever they are.
C18_BoundingBox ==
  IsGetCall(lastCall) =>
    LET res == lastCall.result
        loc == lastCall.location
    IN IF HasLocation(loc)
       THEN /\ \A i \in 1..Len(res) : InRectangle(res[i], loc)
            /\ IsFeedOf(res, {x \in restaurantsTable : InRectangle(x, loc)},
                        lastCall.user, lastCall.limit)
       ELSE IsFeedOf(res, restaurantsTable, lastCall.user, lastCall.limit)

\* a load at the origin returned B, on the corner of the rectangle, and left
\* out C, which ranks above B but lies outside
C18_Witness ==
  /\ IsGetCall(lastCall)
  /\ HasLocation(lastCall.location)
  /\ lastCall.location.latitude = 0 /\ lastCall.location.longitude = 0
  /\ DecidedSet(lastCall.user) = {}
  /\ lastCall.limit = 2
  /\ [i \in 1..Len(lastCall.result) |-> lastCall.result[i].id] = <<1, 2>>

----------------------------------------------------------------------------------------------------------------------------------------
(* Spec: the swipe screen, one account signing in and out *)

SWIPE_THRESHOLD == 120

\* translationX at the end of a drag
GestureXs == {-(SWIPE_THRESHOLD + 1), -SWIPE_THRESHOLD, 0, SWIPE_THRESHOLD,
              SWIPE_THRESHOLD + 1}

\* translationY and velocityX at the end of a drag
GestureTranslationYs == {5, 300}
GestureVelocityXs == {-1500, 1500}

\* the event handed to panGesture.onEnd
GestureEvents == [translationX : GestureXs, translationY : GestureTranslationYs,
                  velocityX : GestureVelocityXs]

Abs(x) == IF x < 0 THEN -x ELSE x

Init ==
  /\ restaurantsTable = {x \in ScenarioTable : x.id <= ScreenRestaurants}
  /\ swipe_history = EmptyBag
  /\ saved_restaurants = EmptyBag
  /\ lastCall = NoCall
  /\ SwipeScreenInitial
  /\ ReelsScreenInitial
  /\ VideoStoreInitial
  /\ AuthInitial
  /\ LikesInitial

Add(bag, x) == bag (+) SetToBag({x})
Remove(bag, x) == bag (-) SetToBag({x})

\* the screen renders the cards, the gesture detector and the buttons
CardVisible ==
  /\ ~userLoading /\ ~loading
  /\ user # NoUser
  /\ ~error
  /\ Len(restaurants) # 0 /\ currentIndex < Len(restaurants)

\* the screen renders ErrorState with onRetry
ErrorVisible ==
  /\ ~userLoading /\ ~loading
  /\ user # NoUser
  /\ error

\* the screen renders the All Done text
AllDoneVisible ==
  /\ ~userLoading /\ ~loading
  /\ user # NoUser
  /\ ~error
  /\ (Len(restaurants) = 0 \/ currentIndex >= Len(restaurants))

\* restaurants[currentIndex]
currentRestaurant == restaurants[currentIndex + 1]

\* loadRestaurants up to its first await, with the user and userLoading it closes over
loadRestaurants(u, ul) ==
  IF ul THEN UNCHANGED <<loading, error, loads>>
  ELSE IF u = NoUser
       THEN /\ loading' = FALSE
            /\ UNCHANGED <<error, loads>>
       ELSE /\ BagCardinality(loads) < MaxLoads
            /\ loading' = TRUE
            /\ error' = FALSE
            /\ loads' = Add(loads, [pc |-> "swiped", user |-> u, swipedIds |-> {}])

\* the auth state changes the signed-in user; the effect re-runs loadRestaurants
SetUser(u) ==
  /\ u # user
  /\ user' = u
  /\ loadRestaurants(u, userLoading)
  /\ UNCHANGED <<dbVars, lastCall, userLoading, restaurants, currentIndex, swiping,
                 alert, tasks, reelsVars, videoVars, authVars, likeVars>>

\* the user context's loading flag flips; the effect re-runs loadRestaurants
SetUserLoading(b) ==
  /\ b # userLoading
  /\ userLoading' = b
  /\ loadRestaurants(user, b)
  /\ UNCHANGED <<dbVars, lastCall, user, restaurants, currentIndex, swiping,
                 alert, tasks, reelsVars, videoVars, authVars, likeVars>>

\* ErrorState's onRetry
Retry ==
  /\ ErrorVisible
  /\ loadRestaurants(user, userLoading)
  /\ UNCHANGED <<dbVars, lastCall, user, userLoading, restaurants, currentIndex,
                 swiping, alert, tasks, reelsVars, videoVars, authVars, likeVars>>

\* the catch and finally of loadRestaurants
LoadFailedMut(l) ==
  /\ error' = TRUE
  /\ restaurants' = <<>>
  /\ loads' = Remove(loads, l)
  /\ UNCHANGED <<currentIndex, loading>>
LoadFailed(l) ==
  /\ error' = TRUE
  /\ restaurants' = <<>>
  /\ loading' = FALSE
  /\ loads' = Remove(loads, l)
  /\ UNCHANGED currentIndex

\* setRestaurants(data)
SetRestaurantsMut(old, data) == old \o data
SetRestaurants(old, data) == data

\* getUnswipedRestaurants: the swipe_history read answers
LoadReadSwiped(l, fail) ==
  /\ l.pc = "swiped"
  /\ IF fail THEN LoadFailed(l)
     ELSE /\ loads' = Add(Remove(loads, l),
                          [l EXCEPT !.pc = "query",
                                    !.swipedIds = SwipedRestaurantIds(swipe_history, l.user)])
          /\ UNCHANGED <<restaurants, currentIndex, loading, error>>
  /\ UNCHANGED <<dbVars, lastCall, user, userLoading, swiping, alert, tasks, reelsVars, videoVars, authVars, likeVars>>

\* getUnswipedRestaurants: the restaurants query answers; loadRestaurants resumes
LoadReadRestaurants(l, fail) ==
  /\ l.pc = "query"
  /\ IF fail THEN LoadFailed(l)
     ELSE /\ restaurants' = SetRestaurants(restaurants,
                              UnswipedResult(restaurantsTable, l.swipedIds, ScreenLimit,
                                             NoLocation))
          /\ currentIndex' = 0
          /\ loading' = FALSE
          /\ loads' = Remove(loads, l)
          /\ UNCHANGED error
  /\ UNCHANGED <<dbVars, lastCall, user, userLoading, swiping, alert, tasks, reelsVars, videoVars, authVars, likeVars>>

\* panGesture.onEnd: which way the drag decides
GestureDirectionMut(x) ==
  IF Abs(x) >= SWIPE_THRESHOLD THEN (IF x > 0 THEN "right" ELSE "left") ELSE "none"
GestureDirection(x) ==
  IF Abs(x) > SWIPE_THRESHOLD THEN (IF x > 0 THEN "right" ELSE "left") ELSE "none"

\* panGesture.onEnd: past the threshold the exit animation starts, its
\* callback holding the handleSwipe of this render
GestureEnd(event) ==
  /\ CardVisible
  /\ BagCardinality(tasks) < MaxTasks
  /\ LET swipeDistance == event.translationX
     IN IF GestureDirection(swipeDistance) # "none"
        THEN tasks' = Add(tasks, [pc |-> "anim", user |-> user,
                                  restaurant |-> currentRestaurant.id,
                                  direction |-> GestureDirection(swipeDistance)])
        ELSE UNCHANGED tasks
  /\ UNCHANGED <<dbVars, lastCall, user, userLoading, restaurants, currentIndex,
                 loading, error, swiping, alert, loads, reelsVars, videoVars, authVars, likeVars>>

\* the first insert a handleSwipe awaits
FirstAwait(direction) == IF direction = "right" THEN "saved" ELSE "history"

\* the withTiming callback: runOnJS(handleSwipe)(direction), up to its await
AnimationEnd(t) ==
  /\ t.pc = "anim"
  /\ swiping' = TRUE
  /\ tasks' = Add(Remove(tasks, t), [t EXCEPT !.pc = FirstAwait(t.direction)])
  /\ UNCHANGED <<dbVars, lastCall, user, userLoading, restaurants, currentIndex,
                 loading, error, alert, loads, reelsVars, videoVars, authVars, likeVars>>

\* a Skip or Save button (disabled while swiping): handleSwipe up to its await
ButtonPress(direction) ==
  /\ CardVisible
  /\ ~swiping
  /\ BagCardinality(tasks) < MaxTasks
  /\ swiping' = TRUE
  /\ tasks' = Add(tasks, [pc |-> FirstAwait(direction), user |-> user,
                          restaurant |-> currentRestaurant.id,
                          direction |-> direction])
  /\ UNCHANGED <<dbVars, lastCall, user, userLoading, restaurants, currentIndex,
                 loading, error, alert, loads, reelsVars, videoVars, authVars, likeVars>>

\* the catch and finally of handleSwipe: where the cursor goes after a failure
IndexAfterFailureMut(index) == index + 1
IndexAfterFailure(index) == index

SwipeFailed(t) ==
  /\ alert' = TRUE
  /\ swiping' = FALSE
  /\ currentIndex' = IndexAfterFailure(currentIndex)
  /\ tasks' = Remove(tasks, t)

\* setCurrentIndex((prev) => prev + 1), then the finally of handleSwipe
SwipeAdvanced(t) ==
  /\ currentIndex' = currentIndex + 1
  /\ swiping' = FALSE
  /\ tasks' = Remove(tasks, t)
  /\ UNCHANGED alert

\* saveRestaurant: the saved_restaurants insert answers
TaskInsertSaved(t, fail) ==
  /\ t.pc = "saved"
  /\ LET res == SaveInsertSaved(saved_restaurants, t.user, t.restaurant, fail)
     IN /\ saved_restaurants' = res.table
        /\ IF IsThrown(res.error) THEN SwipeFailed(t)
           ELSE /\ tasks' = Add(Remove(tasks, t), [t EXCEPT !.pc = "history"])
                /\ UNCHANGED <<currentIndex, swiping, alert>>
  /\ UNCHANGED <<restaurantsTable, swipe_history, lastCall, user, userLoading,
                 restaurants, loading, error, loads, reelsVars, videoVars, authVars, likeVars>>

\* saveRestaurant / skipRestaurant: the swipe_history insert answers; handleSwipe resumes
TaskInsertHistory(t, fail) ==
  /\ t.pc = "history"
  /\ LET res == IF t.direction = "right"
                THEN SaveInsertHistory(swipe_history, t.user, t.restaurant, fail)
                ELSE SkipInsertHistory(swipe_history, t.user, t.restaurant, fail)
     IN /\ swipe_history' = res.table
        /\ IF IsThrown(res.error) THEN SwipeFailed(t) ELSE SwipeAdvanced(t)
  /\ UNCHANGED <<restaurantsTable, saved_restaurants, lastCall, user, userLoading,
                 restaurants, loading, error, loads, reelsVars, videoVars, authVars, likeVars>>

\* the user closes the alert dialog
AlertDismiss ==
  /\ alert
  /\ alert' = FALSE
  /\ UNCHANGED <<dbVars, lastCall, user, userLoading, restaurants, currentIndex,
                 loading, error, swiping, tasks, loads, reelsVars, videoVars, authVars, likeVars>>

Next ==
  \/ \E u \in {NoUser, SessionUser} : SetUser(u)
  \/ \E b \in BOOLEAN : SetUserLoading(b)
  \/ Retry
  \/ \E l \in BagToSet(loads), fail \in BOOLEAN : LoadReadSwiped(l, fail)
  \/ \E l \in BagToSet(loads), fail \in BOOLEAN : LoadReadRestaurants(l, fail)
  \/ \E event \in GestureEvents : GestureEnd(event)
  \/ \E t \in BagToSet(tasks) : AnimationEnd(t)
  \/ \E d \in {"left", "right"} : ButtonPress(d)
  \/ \E t \in BagToSet(tasks), fail \in BOOLEAN : TaskInsertSaved(t, fail)
  \/ \E t \in BagToSet(tasks), fail \in BOOLEAN : TaskInsertHistory(t, fail)
  \/ AlertDismiss

Spec == Init /\ [][Next]_vars

----------------------------------------------------------------------------
(* Claims on the swipe screen *)

\* a handleSwipe that was awaiting an insert ends in this step
TaskEnding(t) ==
  /\ t.pc \in {"saved", "history"}
  /\ tasks' = Remove(tasks, t)

\* C4: a handleSwipe whose recording failed leaves currentIndex and the queue
\* as they were and raises the alert; only a handleSwipe that found or made
\* the decision row moves the cursor.
C4_FailedSwipeStays ==
  [][ \A t \in BagToSet(tasks) : TaskEnding(t) =>
        \/ /\ alert'
           /\ currentIndex' = currentIndex
           /\ restaurants' = restaurants
        \/ /\ alert' = alert
           /\ currentIndex' = currentIndex + 1
           /\ HistoryCount(swipe_history', t.user, t.restaurant) >= 1
    ]_vars

\* the first card is still current after a swipe on it failed and was reported
C4_Witness ==
  /\ alert
  /\ CardVisible
  /\ currentIndex = 0
  /\ swipe_history = EmptyBag
  /\ tasks = EmptyBag

\* C5 (as stated): 0 <= currentIndex <= restaurants.length in every state
C5_CursorInRange ==
  0 <= currentIndex /\ currentIndex <= Len(restaurants)

\* C7: no restaurant id appears twice in restaurants
C7_NoDuplicates ==
  \A i, j \in 1..Len(restaurants) :
    i # j => restaurants[i].id # restaurants[j].id

\* a later load brought back B, which the queue that showed A already held
C7_Witness ==
  /\ DecidedSet(SessionUser) = {1}
  /\ Len(restaurants) = 1
  /\ restaurants[1].id = 2
  /\ currentIndex = 0
  /\ ~loading

\* C10: handleSwipe invocations racing on one card leave one swipe_history
\* row for the pair: no pair ever has two rows, and every invocation that
\* advances the cursor leaves exactly one.
C10_RaceCollapses ==
  [][ /\ \A u \in Users, r \in RestaurantIds : HistoryCount(swipe_history', u, r) <= 1
      /\ \A t \in BagToSet(tasks) :
           (TaskEnding(t) /\ currentIndex' = currentIndex + 1)
             => HistoryCount(swipe_history', t.user, t.restaurant) = 1
    ]_vars

\* two invocations on card A both advanced the cursor; A has its one row
C10_Witness ==
  /\ Len(restaurants) = 2
  /\ restaurants[1].id = 1 /\ restaurants[2].id = 2
  /\ currentIndex = 2
  /\ DecidedSet(SessionUser) = {1}
  /\ HistoryCount(swipe_history, SessionUser, 1) = 1
  /\ tasks = EmptyBag

\* a loadRestaurants invocation resumes after its last await and ends in this step
LoadEnding(l) == loads' = Remove(loads, l)

\* C11 (as stated): a load started for a user who is no longer the signed-in
\* user when it completes is discarded: it changes neither the queue nor the
\* cursor.
C11_StaleLoadDiscarded ==
  [][ \A l \in BagToSet(loads) :
        (LoadEnding(l) /\ l.user # user)
          => (restaurants' = restaurants /\ currentIndex' = currentIndex)
    ]_vars

\* C12 (as stated): a load whose failure puts the screen in the error state
\* leaves loading false and keeps the restaurants and the cursor held before.
C12_FailedLoadKeepsQueue ==
  [][ \A l \in BagToSet(loads) :
        (LoadEnding(l) /\ ~error /\ error')
          => /\ ~loading'
             /\ restaurants' = restaurants
             /\ currentIndex' = currentIndex
    ]_vars

\* C13 (as stated): the All Done state is entered only by the answer of a
\* getUnswipedRestaurants call: a cursor that reaches the end of the queue
\* starts a refill, and All Done shows once that refill has answered.
C13_RefillBeforeAllDone ==
  [][ (AllDoneVisible' /\ ~AllDoneVisible)
        => \E l \in BagToSet(loads) : LoadEnding(l)
    ]_vars

\* the exit animation of a drag on the current card, about to call handleSwipe
PendingSwipe(direction) ==
  [pc |-> "anim", user |-> user, restaurant |-> currentRestaurant.id,
   direction |-> direction]

\* C14: the end of a drag starts a save iff translationX > SWIPE_THRESHOLD and
\* a skip iff translationX < -SWIPE_THRESHOLD; otherwise nothing changes; the
\* drag itself records no decision and leaves the cursor, whatever the
\* vertical translation and the velocity are.
C14_GestureOutcome ==
  [][ \A event \in GestureEvents : GestureEnd(event) =>
        LET x == event.translationX
        IN /\ x > SWIPE_THRESHOLD => tasks' = Add(tasks, PendingSwipe("right"))
           /\ x < -SWIPE_THRESHOLD => tasks' = Add(tasks, PendingSwipe("left"))
           /\ (-SWIPE_THRESHOLD <= x /\ x <= SWIPE_THRESHOLD) => tasks' = tasks
           /\ swipe_history' = swipe_history
           /\ saved_restaurants' = saved_restaurants
           /\ currentIndex' = currentIndex
           /\ restaurants' = restaurants
    ]_vars

C14_Witness ==
  /\ CardVisible
  /\ currentIndex = 0
  /\ tasks = SetToBag({PendingSwipe("left")})
  /\ swipe_history = EmptyBag

----------------------------------------------------------------------------
(* SpecReels: the reels screen *)

REELS_SWIPE_THRESHOLD == 100

\* translationY at the end of a drag
GestureYs == {-(REELS_SWIPE_THRESHOLD + 1), -REELS_SWIPE_THRESHOLD, 0,
              REELS_SWIPE_THRESHOLD, REELS_SWIPE_THRESHOLD + 1}

InitReels ==
  /\ restaurantsTable = ScenarioTable
  /\ swipe_history = EmptyBag
  /\ saved_restaurants = EmptyBag
  /\ lastCall = NoCall
  /\ SwipeScreenInitial
  /\ ReelsScreenInitial
  /\ VideoStoreInitial
  /\ AuthInitial
  /\ LikesInitial

\* the screen renders the videos inside the gesture detector
ReelsVisible == ~reelsLoading /\ ~reelsError /\ Len(videos) # 0

\* videos[currentIndex], or NoVideo where that is undefined
NoVideo == 0
CurrentVideo(vids, index) ==
  IF 0 <= index /\ index < Len(vids) THEN vids[index + 1] ELSE NoVideo

\* `currentVideo && !viewedVideos.current.has(currentVideo.id)`
ViewTrackedMut(id, viewed) == id # NoVideo
ViewTracked(id, viewed) == id # NoVideo /\ id \notin viewed

\* the view-tracking effect, run after a render in which currentIndex or
\* videos changed: the video is marked and incrementViews sends its rpc (the
\* screen does not wait for the answer)
TrackView(vids, index, viewed, requests, calls) ==
  LET id == CurrentVideo(vids, index)
  IN IF ViewTracked(id, viewed)
     THEN [viewed |-> viewed \cup {id},
           requests |-> [requests EXCEPT ![id] = @ + 1],
           calls |-> calls (+) SetToBag({[id |-> id, pc |-> "rpc", views_count |-> 0]})]
     ELSE [viewed |-> viewed, requests |-> requests, calls |-> calls]

\* the effect after a step that took the cursor from reelsIndex to index
TrackViewAt(index) ==
  IF index # reelsIndex
  THEN LET eff == TrackView(videos, index, viewedVideos, viewRequests, viewCalls)
       IN /\ viewedVideos' = eff.viewed
          /\ viewRequests' = eff.requests
          /\ viewCalls' = eff.calls
  ELSE UNCHANGED <<viewedVideos, viewRequests, viewCalls>>

\* loadVideos resumes after getReelsFeed: n videos, or the catch; on success
\* viewedVideos is cleared, and the render that follows runs the effect
LoadVideosAnswered(n, fail) ==
  /\ reelsLoading
  /\ IF fail
     THEN /\ reelsError' = TRUE
          /\ videos' = <<>>
          /\ UNCHANGED <<reelsIndex, viewedVideos, viewRequests, viewCalls>>
     ELSE /\ videos' = [i \in 1..n |-> i]
          /\ reelsIndex' = 0
          /\ UNCHANGED reelsError
          /\ LET eff == TrackView(videos', 0, {}, [v \in VideoIds |-> 0], viewCalls)
             IN /\ viewedVideos' = eff.viewed
                /\ viewRequests' = eff.requests
                /\ viewCalls' = eff.calls
  /\ reelsLoading' = FALSE
  /\ UNCHANGED <<dbVars, lastCall, swipeVars, reelsCallbacks, views_count,
                 viewsCompleted, authVars, likeVars>>

\* ErrorState's onRetry: loadVideos up to its await
ReelsRetry ==
  /\ ~reelsLoading /\ reelsError
  /\ reelsLoading' = TRUE
  /\ reelsError' = FALSE
  /\ UNCHANGED <<dbVars, lastCall, swipeVars, videos, reelsIndex, reelsCallbacks,
                 viewedVideos, viewRequests, videoVars, authVars, likeVars>>

\* panGesture.onEnd: which callback the drag starts, under the currentIndex
\* and videos.length of this render
ReelsGestureKind(y, index, length) ==
  IF y < -REELS_SWIPE_THRESHOLD /\ index < length - 1 THEN "next"
  ELSE IF y > REELS_SWIPE_THRESHOLD /\ index > 0 THEN "prev"
  ELSE "none"

ReelsGestureEnd(y) ==
  /\ ReelsVisible
  /\ BagCardinality(reelsCallbacks) < MaxCallbacks
  /\ LET kind == ReelsGestureKind(y, reelsIndex, Len(videos))
     IN IF kind # "none"
        THEN reelsCallbacks' = Add(reelsCallbacks,
               [kind |-> kind, currentIndex |-> reelsIndex, length |-> Len(videos)])
        ELSE UNCHANGED reelsCallbacks
  /\ UNCHANGED <<dbVars, lastCall, swipeVars, videos, reelsIndex, reelsLoading,
                 reelsError, viewedVideos, viewRequests, videoVars, authVars, likeVars>>

\* goToNext of the render that closed over currentIndex = index
goToNext(index, length, prev) == IF index < length - 1 THEN prev + 1 ELSE prev

\* goToPrev of the render that closed over currentIndex = index
goToPrev(index, prev) == IF index > 0 THEN prev - 1 ELSE prev

\* the withTiming callback: runOnJS(goToNext)() or runOnJS(goToPrev)()
ReelsAnimationEnd(cb) ==
  /\ reelsIndex' = IF cb.kind = "next"
                   THEN goToNext(cb.currentIndex, cb.length, reelsIndex)
                   ELSE goToPrev(cb.currentIndex, reelsIndex)
  /\ reelsCallbacks' = Remove(reelsCallbacks, cb)
  /\ TrackViewAt(reelsIndex')
  /\ UNCHANGED <<dbVars, lastCall, swipeVars, videos, reelsLoading, reelsError,
                 views_count, viewsCompleted, authVars, likeVars>>

\* handleVideoEnd of the active player: auto advance
VideoEnd ==
  /\ ReelsVisible
  /\ 0 <= reelsIndex /\ reelsIndex < Len(videos)
  /\ reelsIndex < Len(videos) - 1
  /\ reelsIndex' = goToNext(reelsIndex, Len(videos), reelsIndex)
  /\ TrackViewAt(reelsIndex')
  /\ UNCHANGED <<dbVars, lastCall, swipeVars, videos, reelsLoading, reelsError,
                 reelsCallbacks, views_count, viewsCompleted, authVars, likeVars>>

NextReels ==
  \/ \E n \in 0..MaxVideos, fail \in BOOLEAN : LoadVideosAnswered(n, fail)
  \/ ReelsRetry
  \/ \E y \in GestureYs : ReelsGestureEnd(y)
  \/ \E cb \in BagToSet(reelsCallbacks) : ReelsAnimationEnd(cb)
  \/ VideoEnd

SpecReels == InitReels /\ [][NextReels]_vars

----------------------------------------------------------------------------
(* Claims on cursor movement *)

\* a pending reels callback runs in this step
CallbackRuns(cb) == reelsCallbacks' = Remove(reelsCallbacks, cb)

\* C6 (as stated): an advance never decreases the cursor and a retreat never
\* takes it below 0.
C6_AdvanceRetreat ==
  [][ /\ \A cb \in BagToSet(reelsCallbacks) : CallbackRuns(cb) =>
           IF cb.kind = "next" THEN reelsIndex' >= reelsIndex ELSE reelsIndex' >= 0
      /\ (\E t \in BagToSet(tasks) : TaskEnding(t)) => currentIndex' >= currentIndex
    ]_vars

\* C16 (as stated): a goToPrev that runs moves the cursor only from a
\* position greater than 0, by one step down, and leaves swipe_history and
\* saved_restaurants as they were.
C16_RetreatViewOnly ==
  [][ \A cb \in BagToSet(reelsCallbacks) :
        (CallbackRuns(cb) /\ cb.kind = "prev") =>
          /\ reelsIndex' # reelsIndex => (reelsIndex > 0 /\ reelsIndex' = reelsIndex - 1)
          /\ swipe_history' = swipe_history
          /\ saved_restaurants' = saved_restaurants
    ]_vars

----------------------------------------------------------------------------
(* SpecViews: videoService.incrementViews called by several clients *)

MaxViewCalls == 2
MaxViews == 3

RECURSIVE SumOver(_, _)
SumOver(f, S) ==
  IF S = {} THEN 0
  ELSE LET v == CHOOSE x \in S : TRUE IN f[v] + SumOver(f, S \ {v})

InitViews ==
  /\ restaurantsTable = ScenarioTable
  /\ swipe_history = EmptyBag
  /\ saved_restaurants = EmptyBag
  /\ lastCall = NoCall
  /\ SwipeScreenInitial
  /\ ReelsScreenInitial
  /\ VideoStoreInitial
  /\ AuthInitial
  /\ LikesInitial

\* a client calls incrementViews(id): the rpc request goes out
IncrementViewsCall(id) ==
  /\ BagCardinality(viewCalls) < MaxViewCalls
  /\ SumOver(viewsCompleted, VideoIds) + BagCardinality(viewCalls) < MaxViews
  /\ viewCalls' = viewCalls (+) SetToBag({[id |-> id, pc |-> "rpc", views_count |-> 0]})
  /\ UNCHANGED <<dbVars, lastCall, swipeVars, reelsVars, authVars, likeVars,
                 views_count, viewsCompleted>>

\* increment_views: SET views_count = views_count + 1 WHERE id = video_id
increment_views(views, id) == [views EXCEPT ![id] = @ + 1]

\* this.update(id, { views_count: video.views_count + 1 })
UpdateViews(views, id, read) == [views EXCEPT ![id] = read + 1]

\* incrementViews returns
ViewsReturned(c) ==
  /\ viewCalls' = viewCalls (-) SetToBag({c})
  /\ viewsCompleted' = [viewsCompleted EXCEPT ![c.id] = @ + 1]

\* incrementViews throws
ViewsThrown(c) ==
  /\ viewCalls' = viewCalls (-) SetToBag({c})
  /\ UNCHANGED <<views_count, viewsCompleted>>

\* the rpc answers: without error the call returns, with an error the
\* call goes on to getById
ViewsRpcAnswered(c, rpcError) ==
  /\ c.pc = "rpc"
  /\ IF rpcError
     THEN /\ viewCalls' = (viewCalls (-) SetToBag({c}))
                            (+) SetToBag({[c EXCEPT !.pc = "getById"]})
          /\ UNCHANGED <<views_count, viewsCompleted>>
     ELSE /\ views_count' = increment_views(views_count, c.id)
          /\ ViewsReturned(c)
  /\ UNCHANGED <<dbVars, lastCall, swipeVars, reelsVars, authVars, likeVars>>

\* getById answers with the video row, or throws
ViewsGetByIdAnswered(c, fail) ==
  /\ c.pc = "getById"
  /\ IF fail
     THEN ViewsThrown(c)
     ELSE /\ viewCalls' = (viewCalls (-) SetToBag({c}))
                            (+) SetToBag({[c EXCEPT !.pc = "update",
                                                    !.views_count = views_count[c.id]]})
          /\ UNCHANGED <<views_count, viewsCompleted>>
  /\ UNCHANGED <<dbVars, lastCall, swipeVars, reelsVars, authVars, likeVars>>

\* update answers: the row is written, or the call throws
ViewsUpdateAnswered(c, fail) ==
  /\ c.pc = "update"
  /\ IF fail
     THEN ViewsThrown(c)
     ELSE /\ views_count' = UpdateViews(views_count, c.id, c.views_count)
          /\ ViewsReturned(c)
  /\ UNCHANGED <<dbVars, lastCall, swipeVars, reelsVars, authVars, likeVars>>

NextViews ==
  \/ \E id \in VideoIds : IncrementViewsCall(id)
  \/ \E c \in BagToSet(viewCalls), rpcError \in BOOLEAN : ViewsRpcAnswered(c, rpcError)
  \/ \E c \in BagToSet(viewCalls), fail \in BOOLEAN : ViewsGetByIdAnswered(c, fail)
  \/ \E c \in BagToSet(viewCalls), fail \in BOOLEAN : ViewsUpdateAnswered(c, fail)

SpecViews == InitViews /\ [][NextViews]_vars

----------------------------------------------------------------------------
(* Claims on the view counter *)

\* C21 (as stated): each video's views_count is higher than at the start by
\* the number of incrementViews calls for it that have returned, in every
\* interleaving of the calls.
C21_ViewsCounted ==
  \A v \in VideoIds : views_count[v] = viewsCompleted[v]

----------------------------------------------------------------------------
(* SpecAuth: UserContext, the index screen, login and create-profile *)

MaxAuthCalls == 2

\* an address nobody has signed up with yet
NewUser == NumUsers + 1

\* the effect of IndexScreen: it runs while the index route is shown
IndexRoute(l, sess, prof, isNew, r) ==
  IF r # RouteIndex \/ l THEN r
  ELSE IF sess = NoUser THEN RouteLogin
  ELSE IF isNew \/ prof = NoUser THEN RouteCreateProfile
  ELSE RouteHome

InitAuth ==
  /\ restaurantsTable = ScenarioTable
  /\ swipe_history = EmptyBag
  /\ saved_restaurants = EmptyBag
  /\ lastCall = NoCall
  /\ SwipeScreenInitial
  /\ ReelsScreenInitial
  /\ VideoStoreInitial
  /\ LikesInitial
  /\ session = NoUser /\ profile = NoUser /\ isNewUser = FALSE
  /\ route = RouteIndex
  /\ authUsers = Users
  /\ profiles \in SUBSET Users
  /\ authCalls = SetToBag({[op |-> "getSession", user |-> NoUser, then |-> "init"]})

AuthCall(op, u, then) == [op |-> op, user |-> u, then |-> then]

authFrame == <<dbVars, lastCall, restaurants, currentIndex, loading, error, swiping,
               alert, tasks, loads, reelsVars, videoVars, likeVars>>

\* authService.getSession().then(...): the stored session, if any
GetSessionAnswered(c, s) ==
  /\ c.op = "getSession"
  /\ session' = s /\ user' = s
  /\ IF s # NoUser
     THEN /\ authCalls' = (authCalls (-) SetToBag({c}))
                            (+) SetToBag({AuthCall("fetchProfile", s, "init")})
          /\ UNCHANGED userLoading
     ELSE /\ authCalls' = authCalls (-) SetToBag({c})
          /\ userLoading' = FALSE
  /\ route' = IndexRoute(userLoading', s, profile, isNewUser, route)
  /\ UNCHANGED <<profile, isNewUser, profiles, authUsers, authFrame>>

\* what fetchProfile returns for an answer of the profiles query
HasProfile(answer) == answer = "row"

\* login.tsx handleSubmit after signIn: where result.hasProfile leads
LoginRoute(hasProfile) == IF hasProfile THEN RouteHome ELSE RouteCreateProfile

\* fetchProfile resumes after the profiles query: a row, PGRST116 (no row)
\* or another error; then its caller resumes
FetchProfileAnswered(c, answer) ==
  /\ c.op = "fetchProfile"
  /\ answer = "row" => c.user \in profiles
  /\ answer = "PGRST116" => c.user \notin profiles
  /\ profile' = IF answer = "row" THEN c.user ELSE NoUser
  /\ isNewUser' = IF answer = "row" THEN FALSE
                  ELSE IF answer = "PGRST116" THEN TRUE ELSE isNewUser
  /\ authCalls' = authCalls (-) SetToBag({c})
  /\ userLoading' = IF c.then \in {"init", "signIn"} THEN FALSE ELSE userLoading
  /\ route' = IF c.then = "signIn" THEN LoginRoute(HasProfile(answer))
              ELSE IF c.then = "createProfile" THEN RouteHome
              ELSE IndexRoute(userLoading', session, profile', isNewUser', route)
  /\ UNCHANGED <<user, session, profiles, authUsers, authFrame>>

\* login.tsx handleSubmit with isLogin: signIn up to its await
SignInSubmit(u) ==
  /\ route = RouteLogin /\ ~userLoading
  /\ BagCardinality(authCalls) < MaxAuthCalls
  /\ userLoading' = TRUE
  /\ authCalls' = authCalls (+) SetToBag({AuthCall("signIn", u, "signIn")})
  /\ UNCHANGED <<user, session, profile, isNewUser, route, profiles, authUsers, authFrame>>

\* authService.signIn answers: it throws, or signIn goes on to fetchProfile
\* and the SIGNED_IN auth change starts a fetchProfile of its own
SignInAnswered(c, fail) ==
  /\ c.op = "signIn"
  /\ IF fail \/ c.user \notin authUsers
     THEN /\ userLoading' = FALSE
          /\ authCalls' = authCalls (-) SetToBag({c})
          /\ UNCHANGED <<user, session>>
     ELSE /\ user' = c.user /\ session' = c.user
          /\ authCalls' = (authCalls (-) SetToBag({c}))
                            (+) SetToBag({AuthCall("fetchProfile", c.user, "signIn"),
                                          AuthCall("fetchProfile", c.user, "authChange")})
          /\ UNCHANGED userLoading
  /\ UNCHANGED <<profile, isNewUser, route, profiles, authUsers, authFrame>>

\* login.tsx handleSubmit without isLogin: signUp up to its await
SignUpSubmit(u) ==
  /\ route = RouteLogin /\ ~userLoading
  /\ BagCardinality(authCalls) < MaxAuthCalls
  /\ userLoading' = TRUE
  /\ authCalls' = authCalls (+) SetToBag({AuthCall("signUp", u, "signUp")})
  /\ UNCHANGED <<user, session, profile, isNewUser, route, profiles, authUsers, authFrame>>

\* on_auth_user_created: handle_new_user inserts the profiles row
handle_new_user(rows, id) == rows \cup {id}

\* authService.signUp answers: it throws, or the account exists from now on
\* and handleSubmit goes to create-profile, while the SIGNED_IN auth change
\* starts a fetchProfile
SignUpAnswered(c, fail) ==
  /\ c.op = "signUp"
  /\ IF fail \/ c.user \in authUsers
     THEN /\ UNCHANGED <<user, session, isNewUser, route, profiles, authUsers>>
     ELSE /\ authUsers' = authUsers \cup {c.user}
          /\ profiles' = handle_new_user(profiles, c.user)
          /\ user' = c.user /\ session' = c.user
          /\ isNewUser' = TRUE
          /\ route' = RouteCreateProfile
  /\ userLoading' = FALSE
  /\ authCalls' = IF fail \/ c.user \in authUsers
                  THEN authCalls (-) SetToBag({c})
                  ELSE (authCalls (-) SetToBag({c}))
                         (+) SetToBag({AuthCall("fetchProfile", c.user, "authChange")})
  /\ UNCHANGED <<profile, authFrame>>

\* create-profile.tsx handleCreateProfile up to authService.createProfile
CreateProfileSubmit ==
  /\ route = RouteCreateProfile
  /\ user # NoUser
  /\ BagCardinality(authCalls) < MaxAuthCalls
  /\ authCalls' = authCalls (+) SetToBag({AuthCall("createProfile", user, "createProfile")})
  /\ UNCHANGED <<user, userLoading, session, profile, isNewUser, route, profiles,
                 authUsers, authFrame>>

\* the profiles insert answers: it throws (the id is the primary key), or
\* handleCreateProfile goes on to refreshProfile
CreateProfileAnswered(c, fail) ==
  /\ c.op = "createProfile"
  /\ IF fail \/ c.user \in profiles
     THEN /\ authCalls' = authCalls (-) SetToBag({c})
          /\ UNCHANGED profiles
     ELSE /\ profiles' = profiles \cup {c.user}
          /\ authCalls' = (authCalls (-) SetToBag({c}))
                            (+) SetToBag({AuthCall("fetchProfile", c.user, "createProfile")})
  /\ UNCHANGED <<user, userLoading, session, profile, isNewUser, route, authUsers,
                 authFrame>>

\* profile.tsx handleSignOut: signOut, the SIGNED_OUT auth change, then login
SignOut ==
  /\ route = RouteHome
  /\ ~userLoading
  /\ authCalls = EmptyBag
  /\ session' = NoUser /\ user' = NoUser
  /\ profile' = NoUser /\ isNewUser' = FALSE
  /\ route' = RouteLogin
  /\ UNCHANGED <<userLoading, profiles, authUsers, authCalls, authFrame>>

NextAuth ==
  \/ \E c \in BagToSet(authCalls), s \in {NoUser} \cup Users : GetSessionAnswered(c, s)
  \/ \E c \in BagToSet(authCalls), answer \in {"row", "PGRST116", "error"} :
       FetchProfileAnswered(c, answer)
  \/ \E u \in Users : SignInSubmit(u)
  \/ \E c \in BagToSet(authCalls), fail \in BOOLEAN : SignInAnswered(c, fail)
  \/ SignUpSubmit(NewUser)
  \/ \E c \in BagToSet(authCalls), fail \in BOOLEAN : SignUpAnswered(c, fail)
  \/ CreateProfileSubmit
  \/ \E c \in BagToSet(authCalls), fail \in BOOLEAN : CreateProfileAnswered(c, fail)
  \/ SignOut

SpecAuth == InitAuth /\ [][NextAuth]_vars

----------------------------------------------------------------------------
(* Claims on routing *)

\* C22 (as stated): once loading is over, every change of route follows the documented flow: to
\* login only without a session, to create-profile only for a signed-in user
\* who has no profiles row, to home only for a signed-in user who has one.
C22_RoutingFlow ==
  [][ (route' # route /\ ~userLoading') =>
        /\ route' = RouteLogin => session' = NoUser
        /\ route' = RouteCreateProfile =>
             (session' # NoUser /\ session' \notin profiles')
        /\ route' = RouteHome =>
             (session' # NoUser /\ session' \in profiles')
    ]_vars

----------------------------------------------------------------------------
(* SpecLikes: likesService.toggleLike, one call after the other *)

LikeRow(u, v) == <<u, v>>

\* `const { data: existing } = ... .single()`: the row, or null when there is
\* none or the select fails (its error is not looked at)
ExistingLike(likes, u, v, failSelect) == ~failSelect /\ LikeRow(u, v) \in likes

\* delete().eq('user_id', ...).eq('video_id', ...)
DeleteLike(likes, u, v, fail) ==
  IF fail THEN [table |-> likes, error |-> ErrOther]
  ELSE [table |-> likes \ {LikeRow(u, v)}, error |-> NoError]

\* insert({ user_id, video_id }) under UNIQUE(user_id, video_id)
InsertLikeMut(likes, u, v, fail) ==
  IF fail THEN [table |-> likes, error |-> ErrOther]
  ELSE [table |-> likes \cup {LikeRow(u, v)}, error |-> NoError]
InsertLike(likes, u, v, fail) ==
  IF fail THEN [table |-> likes, error |-> ErrOther]
  ELSE IF LikeRow(u, v) \in likes THEN [table |-> likes, error |-> ErrUnique]
  ELSE [table |-> likes \cup {LikeRow(u, v)}, error |-> NoError]

toggleLike(likes, u, v, failSelect, failWrite) ==
  IF ExistingLike(likes, u, v, failSelect)
  THEN LET del == DeleteLike(likes, u, v, failWrite)
       IN IF del.error # NoError
          THEN [likes |-> del.table, outcome |-> "threw", liked |-> FALSE]
          ELSE [likes |-> del.table, outcome |-> "returned", liked |-> FALSE]
  ELSE LET ins == InsertLike(likes, u, v, failWrite)
       IN IF ins.error # NoError
          THEN [likes |-> ins.table, outcome |-> "threw", liked |-> FALSE]
          ELSE [likes |-> ins.table, outcome |-> "returned", liked |-> TRUE]

InitLikes ==
  /\ restaurantsTable = ScenarioTable
  /\ swipe_history = EmptyBag
  /\ saved_restaurants = EmptyBag
  /\ lastCall = NoCall
  /\ SwipeScreenInitial
  /\ ReelsScreenInitial
  /\ VideoStoreInitial
  /\ AuthInitial
  /\ LikesInitial

\* one call of toggleLike; `before` keeps the table the call started from
CallToggleLike(u, v, failSelect, failWrite) ==
  LET res == toggleLike(user_likes, u, v, failSelect, failWrite)
  IN /\ user_likes' = res.likes
     /\ lastCall' = [op |-> "toggleLike", user |-> u, video |-> v,
                     outcome |-> res.outcome, liked |-> res.liked,
                     before |-> user_likes]
     /\ UNCHANGED <<dbVars, swipeVars, reelsVars, videoVars, authVars>>

NextLikes ==
  \E u \in Users, v \in VideoIds, failSelect \in BOOLEAN, failWrite \in BOOLEAN :
    CallToggleLike(u, v, failSelect, failWrite)

SpecLikes == InitLikes /\ [][NextLikes]_vars

----------------------------------------------------------------------------
(* Claims on likes *)

ToggleReturned(call) == call.op = "toggleLike" /\ call.outcome = "returned"

\* C23: a toggleLike(user, video) that returns leaves a user_likes row for
\* the pair iff there was none before and returns that new state as `liked`;
\* no other pair changes, and a second returning toggle of the same pair
\* right after the first gives back the table the first one started from.
C23_ToggleLike ==
  [][ ToggleReturned(lastCall') =>
        LET row == LikeRow(lastCall'.user, lastCall'.video)
        IN /\ lastCall'.before = user_likes
           /\ (row \in user_likes') <=> (row \notin user_likes)
           /\ lastCall'.liked = (row \in user_likes')
           /\ user_likes' \ {row} = user_likes \ {row}
           /\ ( /\ ToggleReturned(lastCall)
                /\ lastCall.user = lastCall'.user
                /\ lastCall.video = lastCall'.video )
              => user_likes' = lastCall.before
    ]_vars

\* a like taken back: the pair was toggled twice, other likes are present
C23_Witness ==
  /\ ToggleReturned(lastCall)
  /\ ~lastCall.liked
  /\ LikeRow(lastCall.user, lastCall.video) \in lastCall.before
  /\ user_likes # {}

----------------------------------------------------------------------------
(* Claims on racing swipes and on partial saves *)

\* C24 (as stated): every increment of currentIndex ends a handleSwipe that
\* recorded a decision for the card at the old cursor position.
C24_CursorPassesDecided ==
  [][ currentIndex' = currentIndex + 1 =>
        /\ currentIndex < Len(restaurants)
        /\ \E t \in BagToSet(tasks) :
             /\ TaskEnding(t)
             /\ t.restaurant = restaurants[currentIndex + 1].id
             /\ HistoryCount(swipe_history', t.user, t.restaurant) >= 1
    ]_vars

\* C25 (as stated): on the reels screen, whenever videos is non-empty,
\* 0 <= currentIndex <= videos.length - 1.
C25_ReelsIndexInRange ==
  Len(videos) # 0 => (0 <= reelsIndex /\ reelsIndex <= Len(videos) - 1)

\* C26 (as stated): a saveRestaurant that throws has added no row for its
\* (user, restaurant) pair to saved_restaurants or to swipe_history.
C26_SaveAllOrNothing ==
  [][ (lastCall'.op = "saveRestaurant" /\ lastCall'.outcome = "threw") =>
        LET u == lastCall'.user
            r == lastCall'.restaurant
        IN /\ CopiesIn(SavedRow(u, r), saved_restaurants')
                <= CopiesIn(SavedRow(u, r), saved_restaurants)
           /\ HistoryCount(swipe_history', u, r) <= HistoryCount(swipe_history, u, r)
    ]_vars

\* C27 (as stated): every row of saved_restaurants has a swipe_history row
\* of the same pair whose action is 'right'.
C27_SavedHasRightHistory ==
  \A x \in BagToSet(saved_restaurants) :
    CopiesIn(HistoryRow(x.user_id, x.restaurant_id, "right"), swipe_history) >= 1

----------------------------------------------------------------------------
(* Claims on view tracking *)

\* C28: since the last successful load of the reels feed, incrementViews has
\* been called at most once for each video id, however the cursor has moved.
C28_OneViewPerLoad ==
  \A v \in VideoIds : viewRequests[v] <= 1

\* the cursor is back on the first video after the second one was shown
C28_Witness ==
  /\ ReelsVisible
  /\ reelsIndex = 0
  /\ {1, 2} \subseteq viewedVideos
  /\ viewRequests[1] = 1
  /\ reelsCallbacks = EmptyBag

====
